---- MODULE Spec2Model ----
(***************************************************************************)
(* A model of climakitae's threshold tools (src/climakitae/                *)
(* threshold_tools.py): one call of a point-wise extreme-value reduction   *)
(* (get_lmoments, get_ks_stat, get_return_value, get_return_prob,          *)
(* get_return_period, bootstrap) over a labelled array, and one call of    *)
(* the exceedance functions (get_exceedance_events, get_exceedance_count); *)
(* and the two selector objects of src/climakitae/selectors.py,            *)
(* LocSelectorArea and DataSelector, with the handlers that param runs     *)
(* when one of their parameters changes.                                   *)
(*                                                                         *)
(* Numbers are fixed point.  A value that the code rounds to 5 decimals is *)
(* an integer count of 1e-5; a probability is a count of 1/PScale; a       *)
(* return period is a count of 1e-3.  NaN is a value of its own.           *)
(*                                                                         *)
(* The libraries the code calls are modelled by what the code relies on:   *)
(*  - lmoments3's lmom_fit computes the sample's L-moments and raises      *)
(*    ValueError when they map to no parameters: the L-scale is not        *)
(*    positive or, for every family but Gumbel, the L-skewness is not      *)
(*    inside (-1, 1);                                                      *)
(*    the fitted scipy distribution is stood for by the distribution with  *)
(*    a linear CDF that has the sample's first two L-moments;              *)
(*  - numpy's process-wide random generator is a deterministic generator   *)
(*    with one state, advanced by every draw;                              *)
(*  - xarray's stack / squeeze / groupby / unstack act on the list of      *)
(*    axes as documented.                                                  *)
(***************************************************************************)
EXTENDS Integers, Sequences, FiniteSets, TLC

VARIABLES
    call,     \* the arguments of the statistics call in progress
    ams,      \* its input series: the axes, and one 1-D time slice per point
    pc,       \* where the call stands
    lmom,     \* lmom_distr, once resolved
    order,    \* the order in which the points are evaluated
    k,        \* position in order of the point being evaluated
    cur,      \* the point estimate of the point being evaluated
    boot,     \* bootstrap_values of the conf_int in progress
    rng,      \* state of numpy's process-wide random generator
    rng0,     \* its state when the call began
    out,      \* the output built so far: axes and per-point values
    err,      \* the exception the call raised, "none" if none
    eff       \* what the call has computed so far

statVars == <<call, ams, pc, lmom, order, k, cur, boot, rng, rng0, out, err, eff>>

VARIABLES
    xcall,    \* the arguments of the exceedance call in progress
    xda,      \* its input series: time stamps and one value per point and stamp
    xpc,      \* where the call stands
    events,   \* events_da
    xout,     \* the value returned
    xerr,     \* the exception raised, "none" if none
    xeff      \* what the call has computed so far

excVars == <<xcall, xda, xpc, events, xout, xerr, xeff>>

VARIABLES
    calc,          \* the arguments of the calculator call in progress
    fitted_distr,  \* the fitted distribution handed to it
    cpc,           \* where the call stands
    result,        \* the value calculate_return returned
    period         \* return_period of that value, when it is fed back

calcVars == <<calc, fitted_distr, cpc, result, period>>

VARIABLES
    heap,     \* the metadata dictionaries alive, each an object of its own
    ref       \* which of them the input, ams_attributes and the result hold

memVars == <<heap, ref>>

VARIABLES
    location,     \* a LocSelectorArea: its parameters, options and lookups
    selections    \* a DataSelector: its parameters and options

selVars == <<location, selections>>

vars == <<statVars, excVars, calcVars, memVars, selVars>>

----------------------------------------------------------------------------
(* Bounds of the model *)

MaxVal == 1        \* sample values are 0..MaxVal
MaxArg == 2        \* the metric's argument is 0..MaxArg
MaxRuns == 2       \* bootstrap_runs is 1..MaxRuns
RngMod == 4        \* number of states of the random generator
PScale == 1000     \* a probability is a count of 1/PScale

\* The shape of the inputs explored.
TimeSteps == 1..3        \* the time axis of a statistics input
LongSteps == 1..5        \* a longer one
TimeEntries == 1..3      \* the time axis of an exceedance input
CalendarYears == 1..2
DaysOfYear == 1..2
ReturnPeriods == {2, 10, 50, 100}    \* the return periods of a round trip

(* Program constants *)

DefaultLower == 25      \* conf_int_lower_bound=2.5, in tenths of a percent
DefaultUpper == 975     \* conf_int_upper_bound=97.5
ValueScale == 100000   \* round(return_value, 5)
PeriodScale == 1000    \* round(return_period, 3)

----------------------------------------------------------------------------
(* Numbers *)

NaN == [nan |-> TRUE, val |-> 0]
Num(v) == [nan |-> FALSE, val |-> v]

RECURSIVE SumSeq(_)
SumSeq(s) == IF s = <<>> THEN 0 ELSE Head(s) + SumSeq(Tail(s))

RECURSIVE Insert(_, _)
Insert(x, s) ==
    IF s = <<>> THEN <<x>>
    ELSE IF x <= Head(s) THEN <<x>> \o s
    ELSE <<Head(s)>> \o Insert(x, Tail(s))

RECURSIVE Sort(_)
Sort(s) == IF s = <<>> THEN <<>> ELSE Insert(Head(s), Sort(Tail(s)))

\* Python's round(): to the nearest, a tie to the even neighbour (den > 0).
RoundDiv(num, den) ==
    LET q == num \div den
        r == num % den
    IN  IF 2 * r < den THEN q
        ELSE IF 2 * r > den THEN q + 1
        ELSE IF q % 2 = 0 THEN q ELSE q + 1

----------------------------------------------------------------------------
(* The distribution registry and the fitter *)

distrs == {"gev", "gumbel", "weibull", "pearson3", "genpareto"}

data_variables == {"return_value", "return_prob", "return_period"}

LmomName(distr) ==
    CASE distr = "gev" -> "gev"
      [] distr = "gumbel" -> "gum"
      [] distr = "weibull" -> "wei"
      [] distr = "pearson3" -> "pe3"
      [] distr = "genpareto" -> "gpa"
      [] OTHER -> "unbound"

DistrError == "ValueError: invalid distr type"
DataVariableError == "ValueError: invalid data variable type"
FitError == "ValueError: L-Moments invalid"

\* The except clauses name ValueError and ZeroDivisionError.
Caught(exc) == exc \in {DistrError, DataVariableError, FitError, "ZeroDivisionError"}

\* A registry that falls back to gev for a name it does not know.
get_lmom_distr_fallback(distr) ==
    IF distr \notin distrs THEN "gev" ELSE LmomName(distr)

\* get_lmom_distr: the name's L-moment distribution, or the ValueError raised.
get_lmom_distr(distr) ==
    IF distr \notin distrs THEN DistrError ELSE LmomName(distr)

ScipyName(distr) ==
    CASE distr = "gev" -> "genextreme"
      [] distr = "gumbel" -> "gumbel_r"
      [] distr = "weibull" -> "weibull_min"
      [] distr = "pearson3" -> "pearson3"
      [] distr = "genpareto" -> "genpareto"
      [] OTHER -> "unbound"

NoFit(e) == [exc |-> e, dist |-> "none", a |-> 0, w |-> 0, n |-> 0]

\* n(n-1) times the sample's second L-moment: sum of (2i - n - 1) x_(i).
RECURSIVE L2Sum(_, _, _)
L2Sum(xs, i, n) ==
    IF i > n THEN 0 ELSE (2 * i - n - 1) * xs[i] + L2Sum(xs, i + 1, n)

\* n(n-1)(n-2)/2 times the sample's third L-moment: the sum of
\* (C(i-1,2) - 2(i-1)(n-i) + C(n-i,2)) x_(i).
RECURSIVE L3Sum(_, _, _)
L3Sum(xs, i, n) ==
    IF i > n THEN 0
    ELSE (((i - 1) * (i - 2)) \div 2 - 2 * (i - 1) * (n - i)
              + ((n - i) * (n - i - 1)) \div 2) * xs[i]
         + L3Sum(xs, i + 1, n)

\* The L-moments are invalid for the family: L-scale <= 0, or |L-skewness| >= 1
\* for a family with a shape parameter.
LmomInvalid(xs, lmom_distr) ==
    LET n == Len(xs)
        l2 == L2Sum(xs, 1, n)
        l3 == L3Sum(xs, 1, n)
    IN  \/ l2 <= 0
        \/ /\ lmom_distr # "gum"
           /\ 2 * (IF l3 < 0 THEN -l3 ELSE l3) >= (n - 2) * l2

\* lmom_distr.lmom_fit(ams): the parameters, in units of 1/(n(n-1)): the lower
\* end a = l1 - 3 l2 and the width w = 6 l2 of the fitted distribution.
lmom_fit(sample, lmom_distr) ==
    LET n == Len(sample)
        xs == Sort(sample)
        l2 == L2Sum(xs, 1, n)
    IN  IF LmomInvalid(xs, lmom_distr) THEN NoFit(FitError)
        ELSE [exc |-> "none", dist |-> "lmoments",
              a |-> (n - 1) * SumSeq(xs) - 3 * l2, w |-> 6 * l2, n |-> n * (n - 1)]

\* get_fitted_distr: the if-chain over the five names has no else branch.
get_fitted_distr(sample, distr, lmom_distr) ==
    IF distr \in distrs
    THEN LET f == lmom_fit(sample, lmom_distr)
         IN  IF f.exc = "none" THEN [f EXCEPT !.dist = ScipyName(distr)] ELSE f
    ELSE NoFit("UnboundLocalError")

\* fitted_distr.cdf(v), a count of 1/PScale.
Cdf(f, v) ==
    LET num == v * f.n - f.a
    IN  IF num <= 0 THEN 0
        ELSE IF num >= f.w THEN PScale
        ELSE (PScale * num) \div f.w

----------------------------------------------------------------------------
(* The return-metric calculator *)

\* A magnitude handed to the calculator is a count of 1/ValueScale.  The
\* fitted CDF there is CdfNum / CdfDen, cut to 0..1.
CdfNum(f, v) == v * f.n - f.a * ValueScale

CdfDen(f) == f.w * ValueScale

\* fitted_distr.cdf(v) for such a magnitude, a count of 1/PScale.
CdfOf(f, v) ==
    LET num == CdfNum(f, v)
    IN  IF num <= 0 THEN 0
        ELSE IF num >= CdfDen(f) THEN PScale
        ELSE (PScale * (num \div f.w) + (PScale * (num % f.w)) \div f.w)
                 \div ValueScale

\* Quotient and remainder of m * r by e, m a power of ten and r < e, one
\* decimal digit at a time.
RECURSIVE ScaleDiv(_, _, _)
ScaleDiv(m, r, e) ==
    IF m = 1 THEN [q |-> r \div e, r |-> r % e]
    ELSE LET h == ScaleDiv(m \div 10, r, e)
         IN  [q |-> 10 * h.q + (10 * h.r) \div e, r |-> (10 * h.r) % e]

\* round(-1.0 / (return_prob - 1.0), 3) for return_prob = num / den < 1:
\* den / (den - num) to the nearest 1/PeriodScale, a tie to the even neighbour.
RoundPeriod(num, den) ==
    LET e == den - num
        h == ScaleDiv(PeriodScale, den % e, e)
        up == 2 * h.r > e \/ (2 * h.r = e /\ h.q % 2 = 1)
    IN  PeriodScale * (den \div e) + h.q + (IF up THEN 1 ELSE 0)

\* An infinity, which is a number and not NaN.
Infinity == [nan |-> FALSE, val |-> -1]

\* The calculator without the test return_prob == 1.0: the division by zero of
\* a numpy float yields an infinity.
calculate_return_unguarded(f, data_variable, arg_value) ==
    CASE data_variable = "return_value" ->
            IF arg_value = 0 THEN NaN
            ELSE Num(RoundDiv(ValueScale * (f.a * arg_value + f.w * (arg_value - 1)),
                              f.n * arg_value))
      [] data_variable = "return_prob" ->
            Num(PScale - CdfOf(f, arg_value))
      [] data_variable = "return_period" ->
            LET num == CdfNum(f, arg_value)
            IN  IF num >= CdfDen(f) THEN Infinity
                ELSE IF num <= 0 THEN Num(PeriodScale)
                ELSE Num(RoundPeriod(num, CdfDen(f)))

\* The calculator with return_event = 1.0 / arg_value, the exceedance
\* probability, handed to ppf.
calculate_return_exceedance(f, data_variable, arg_value) ==
    CASE data_variable = "return_value" ->
            IF arg_value = 0 THEN NaN
            ELSE Num(RoundDiv(ValueScale * (f.a * arg_value + f.w),
                              f.n * arg_value))
      [] data_variable = "return_prob" ->
            Num(PScale - CdfOf(f, arg_value))
      [] data_variable = "return_period" ->
            LET num == CdfNum(f, arg_value)
            IN  IF num >= CdfDen(f) THEN NaN
                ELSE IF num <= 0 THEN Num(PeriodScale)
                ELSE Num(RoundPeriod(num, CdfDen(f)))

\* The calculator with 1.0 / (return_prob - 1.0), the minus sign left out.
calculate_return_unsigned(f, data_variable, arg_value) ==
    CASE data_variable = "return_value" ->
            IF arg_value = 0 THEN NaN
            ELSE Num(RoundDiv(ValueScale * (f.a * arg_value + f.w * (arg_value - 1)),
                              f.n * arg_value))
      [] data_variable = "return_prob" ->
            Num(PScale - CdfOf(f, arg_value))
      [] data_variable = "return_period" ->
            LET num == CdfNum(f, arg_value)
            IN  IF num >= CdfDen(f) THEN NaN
                ELSE IF num <= 0 THEN Num(-PeriodScale)
                ELSE Num(-RoundPeriod(num, CdfDen(f)))

\* calculate_return: each branch catches ValueError, ZeroDivisionError and
\* AttributeError and yields NaN.  arg_value is a return period in years for
\* return_value, and a magnitude for return_prob and return_period.
calculate_return(f, data_variable, arg_value) ==
    CASE data_variable = "return_value" ->
            IF arg_value = 0 THEN NaN      \* 1.0 / arg_value: ZeroDivisionError
            ELSE Num(RoundDiv(ValueScale * (f.a * arg_value + f.w * (arg_value - 1)),
                              f.n * arg_value))
      [] data_variable = "return_prob" ->
            Num(PScale - CdfOf(f, arg_value))
      [] data_variable = "return_period" ->
            LET num == CdfNum(f, arg_value)
            IN  IF num >= CdfDen(f) THEN NaN       \* return_prob == 1.0
                ELSE IF num <= 0 THEN Num(PeriodScale)
                ELSE Num(RoundPeriod(num, CdfDen(f)))

\* The per-point try block without its except clause: the fit's error escapes.
PointMetricNoExcept(sample, distr, lmom_distr, data_variable, arg_value) ==
    LET f == get_fitted_distr(sample, distr, lmom_distr)
    IN  IF f.exc = "none"
        THEN [exc |-> "none", val |-> calculate_return(f, data_variable, arg_value)]
        ELSE [exc |-> f.exc, val |-> NaN]

\* The try block of return_value / return_prob / return_period at one point:
\* fit, calculate; except (ValueError, ZeroDivisionError): NaN.
PointMetric(sample, distr, lmom_distr, data_variable, arg_value) ==
    LET f == get_fitted_distr(sample, distr, lmom_distr)
    IN  IF f.exc = "none"
        THEN [exc |-> "none", val |-> calculate_return(f, data_variable, arg_value)]
        ELSE IF Caught(f.exc)
        THEN [exc |-> "none", val |-> NaN]
        ELSE [exc |-> f.exc, val |-> NaN]

----------------------------------------------------------------------------
(* The random generator and the bootstrap *)

NextRng(s) == (5 * s + 3) % RngMod

\* np.random.choice(ams, size, replace=True): size draws, each advancing the
\* generator.
RECURSIVE Choice(_, _, _)
Choice(sample, size, s) ==
    IF size = 0 THEN [sample |-> <<>>, rng |-> s]
    ELSE LET rest == Choice(sample, size - 1, NextRng(s))
         IN  [sample |-> <<sample[(s % Len(sample)) + 1]>> \o rest.sample,
              rng |-> rest.rng]

\* bootstrap: the value of one replicate, the generator's state after it, and
\* the number of draws and fits made, or the exception raised.
bootstrap(sample, distr, data_variable, arg_value, s) ==
    IF data_variable \notin data_variables
    THEN [exc |-> DataVariableError, result |-> NaN, rng |-> s, draws |-> 0, fits |-> 0]
    ELSE IF get_lmom_distr(distr) = DistrError
    THEN [exc |-> DistrError, result |-> NaN, rng |-> s, draws |-> 0, fits |-> 0]
    ELSE LET c == Choice(sample, Len(sample), s)
             m == PointMetric(c.sample, distr, get_lmom_distr(distr),
                              data_variable, arg_value)
         IN  [exc |-> m.exc, result |-> m.val, rng |-> c.rng,
              draws |-> Len(sample), fits |-> IF distr \in distrs THEN 1 ELSE 0]

AnyNaN(vs) == \E i \in 1..Len(vs) : vs[i].nan

RECURSIVE DropNaN(_)
DropNaN(vs) ==
    IF vs = <<>> THEN <<>>
    ELSE IF Head(vs).nan THEN DropNaN(Tail(vs))
    ELSE <<Head(vs)>> \o DropNaN(Tail(vs))

\* np.nanpercentile: the percentile of the values that are numbers.
Percentile_NaNsDropped(vs, q) ==
    IF DropNaN(vs) = <<>> THEN NaN
    ELSE LET xs == Sort([i \in 1..Len(DropNaN(vs)) |-> DropNaN(vs)[i].val])
             pos == q * (Len(xs) - 1)
             i == pos \div 1000
             r == pos % 1000
         IN  IF r = 0 THEN Num(xs[i + 1])
             ELSE Num(xs[i + 1] + ((xs[i + 2] - xs[i + 1]) * r) \div 1000)

\* A percentile that counts the rank from the largest value down.
Percentile_FromTop(vs, q) ==
    IF AnyNaN(vs) \/ vs = <<>> THEN NaN
    ELSE LET xs == Sort([i \in 1..Len(vs) |-> vs[i].val])
             pos == (1000 - q) * (Len(xs) - 1)
             i == pos \div 1000
             r == pos % 1000
         IN  IF r = 0 THEN Num(xs[i + 1])
             ELSE Num(xs[i + 1] + ((xs[i + 2] - xs[i + 1]) * r) \div 1000)

\* np.percentile(values, q), q in tenths of a percent: linear interpolation
\* between the two nearest order statistics; NaN if any value is NaN.
Percentile(vs, q) ==
    IF AnyNaN(vs) \/ vs = <<>> THEN NaN
    ELSE LET xs == Sort([i \in 1..Len(vs) |-> vs[i].val])
             pos == q * (Len(xs) - 1)
             i == pos \div 1000
             r == pos % 1000
         IN  IF r = 0 THEN Num(xs[i + 1])
             ELSE Num(xs[i + 1] + ((xs[i + 2] - xs[i + 1]) * r) \div 1000)

\* The loop of conf_int: bootstrap called runs times in a row, each call
\* starting from the generator state the previous one left.
RECURSIVE Replicates(_, _, _, _, _, _)
Replicates(sample, distr, data_variable, arg_value, runs, s) ==
    IF runs = 0 THEN [exc |-> "none", values |-> <<>>, rng |-> s]
    ELSE LET b == bootstrap(sample, distr, data_variable, arg_value, s)
             rest == Replicates(sample, distr, data_variable, arg_value, runs - 1, b.rng)
         IN  IF b.exc # "none" THEN [exc |-> b.exc, values |-> <<>>, rng |-> b.rng]
             ELSE [exc |-> rest.exc, values |-> <<b.result>> \o rest.values,
                   rng |-> rest.rng]

\* conf_int: the two limits, and the generator state it leaves.
conf_int(sample, distr, data_variable, arg_value, bootstrap_runs, lower, upper, s) ==
    LET r == Replicates(sample, distr, data_variable, arg_value, bootstrap_runs, s)
    IN  [exc |-> r.exc,
         conf_int_lower_limit |-> Percentile(r.values, lower),
         conf_int_upper_limit |-> Percentile(r.values, upper),
         rng |-> r.rng]

\* The point-wise function of get_return_value / get_return_prob /
\* get_return_period on one 1-D slice, the generator being in state s.
ReturnAtPoint(sample, c, s) ==
    LET m == PointMetric(sample, c.distr, get_lmom_distr(c.distr),
                         c.data_variable, c.arg_value)
        ci == conf_int(sample, c.distr, c.data_variable, c.arg_value,
                       c.bootstrap_runs, c.conf_int_lower_bound,
                       c.conf_int_upper_bound, s)
    IN  [exc |-> IF m.exc # "none" THEN m.exc ELSE ci.exc,
         cell |-> [metric |-> m.val,
                   conf_int_lower_limit |-> ci.conf_int_lower_limit,
                   conf_int_upper_limit |-> ci.conf_int_upper_limit],
         rng |-> ci.rng]

\* xr.apply_ufunc over the groups: the points one after the other, in the
\* order of the stacked axis.
RECURSIVE ReturnOverPoints(_, _, _, _)
ReturnOverPoints(vals, c, p, s) ==
    IF p > Len(vals) THEN <<>>
    ELSE LET r == ReturnAtPoint(vals[p], c, s)
         IN  <<r.cell>> \o ReturnOverPoints(vals, c, p + 1, r.rng)

----------------------------------------------------------------------------
(* The Kolmogorov-Smirnov statistic *)

Max(a, b) == IF a >= b THEN a ELSE b

\* The two-sided one-sample statistic D against the fitted CDF, a count of
\* 1/PScale.
RECURSIVE KsD(_, _, _)
KsD(f, xs, i) ==
    IF i > Len(xs) THEN 0
    ELSE LET F == Cdf(f, xs[i])
             up == (i * PScale) \div Len(xs) - F
             dn == F - ((i - 1) * PScale) \div Len(xs)
         IN  Max(Max(up, dn), KsD(f, xs, i + 1))

\* ks_stat with the test outside any try block: the fitter's error goes on to
\* the caller.
ks_stat_NoExcept(sample, distr, lmom_distr) ==
    LET f == get_fitted_distr(sample, distr, lmom_distr)
    IN  IF f.exc = "none"
        THEN LET d == KsD(f, Sort(sample), 1)
             IN  [exc |-> "none", d_statistic |-> Num(d), p_value |-> Num(PScale - d)]
        ELSE [exc |-> f.exc, d_statistic |-> NaN, p_value |-> NaN]

\* ks_stat at one point: fit, test; except (ValueError, ZeroDivisionError):
\* both NaN.  The p-value stands for scipy's: it falls as D grows.
ks_stat(sample, distr, lmom_distr) ==
    LET f == get_fitted_distr(sample, distr, lmom_distr)
    IN  IF f.exc = "none"
        THEN LET d == KsD(f, Sort(sample), 1)
             IN  [exc |-> "none", d_statistic |-> Num(d), p_value |-> Num(PScale - d)]
        ELSE IF Caught(f.exc)
        THEN [exc |-> "none", d_statistic |-> NaN, p_value |-> NaN]
        ELSE [exc |-> f.exc, d_statistic |-> NaN, p_value |-> NaN]

----------------------------------------------------------------------------
(* The axes of a labelled array: a sequence of [name, len] *)

Axis(name, len) == [name |-> name, len |-> len]

AxisNames(dims) == {dims[i].name : i \in 1..Len(dims)}

AxisLen(dims, name) ==
    LET i == CHOOSE j \in 1..Len(dims) : dims[j].name = name IN dims[i].len

RECURSIVE Without(_, _)
Without(dims, names) ==
    IF dims = <<>> THEN <<>>
    ELSE IF Head(dims).name \in names THEN Without(Tail(dims), names)
    ELSE <<Head(dims)>> \o Without(Tail(dims), names)

\* .stack(allpoints=["y", "x"]): y and x become one new last axis.
StackYX(dims) ==
    Without(dims, {"y", "x"})
        \o <<Axis("allpoints", AxisLen(dims, "y") * AxisLen(dims, "x"))>>

\* .squeeze(): every axis of length 1 is dropped.
RECURSIVE Squeeze(_)
Squeeze(dims) ==
    IF dims = <<>> THEN <<>>
    ELSE IF Head(dims).len = 1 THEN Squeeze(Tail(dims))
    ELSE <<Head(dims)>> \o Squeeze(Tail(dims))

\* The axes of the array the point-wise function is applied over.
Grouped(dims, multiple_points) ==
    IF multiple_points THEN Squeeze(StackYX(dims)) ELSE dims

\* .unstack("allpoints"): the stacked axis becomes y and x again.
RECURSIVE Unstack(_, _)
Unstack(dims, orig) ==
    IF dims = <<>> THEN <<>>
    ELSE IF Head(dims).name = "allpoints"
         THEN <<Axis("y", AxisLen(orig, "y")), Axis("x", AxisLen(orig, "x"))>>
                  \o Unstack(Tail(dims), orig)
         ELSE <<Head(dims)>> \o Unstack(Tail(dims), orig)

\* The axes of the dataset returned: time is consumed by the reduction.
OutDims(dims, multiple_points) ==
    LET g == Without(Grouped(dims, multiple_points), {"time"})
    IN  IF multiple_points THEN Unstack(g, dims) ELSE g

RECURSIVE NPoints(_)
NPoints(dims) ==
    IF dims = <<>> THEN 1
    ELSE (IF Head(dims).name = "time" THEN 1 ELSE Head(dims).len) * NPoints(Tail(dims))

----------------------------------------------------------------------------
(* Metadata: .attrs is a dictionary object; two names may hold the same one *)

AttrKeys == {"units", "distribution"}

\* The metadata an input may carry.
AttrMaps ==
    UNION {[K -> {"mm", "observed"}] : K \in SUBSET AttrKeys}

DefaultAttrs == [key \in {"units"} |-> "mm"]

NoRefs == [input |-> 0, ams_attributes |-> 0, returned |-> 0]

\* An assignment that leaves the object with an empty dictionary.
SetAttrs_Dropped(h, r) == [heap |-> Append(h, <<>>), ref |-> Len(h) + 1]

\* An assignment that keeps the dictionary it is given instead of copying it.
SetAttrs_ByReference(h, r) == [heap |-> h, ref |-> r]

\* xarray's `obj.attrs = value`: the object takes a new dictionary with the
\* entries of value.
SetAttrs(h, r) == [heap |-> Append(h, h[r]), ref |-> Len(h) + 1]

\* d[key] = value on the dictionary at r.
SetItem(h, r, key, value) == [h EXCEPT ![r] = (key :> value) @@ @]

----------------------------------------------------------------------------
(* One call of a point-wise reduction *)

ReturnFns == {"get_return_value", "get_return_prob", "get_return_period"}
GridFns == ReturnFns \cup {"get_lmoments", "get_ks_stat"}
Fns == GridFns \cup {"bootstrap"}

\* data_variable is set from the function called.
DataVariableOf(fn) ==
    CASE fn = "get_return_value" -> "return_value"
      [] fn = "get_return_prob" -> "return_prob"
      [] fn = "get_return_period" -> "return_period"
      [] OTHER -> "none"

DistrNames == distrs \cup {"normal"}

\* Input layouts.  Every 1-D slice handed to the point-wise function has the
\* time axis only.
LayoutYX == <<Axis("time", Cardinality(TimeSteps)), Axis("y", 1), Axis("x", 2)>>
LayoutXY == <<Axis("time", Cardinality(TimeSteps)), Axis("y", 2), Axis("x", 1)>>
LayoutSim == <<Axis("simulation", 1), Axis("time", Cardinality(TimeSteps)), Axis("y", 1), Axis("x", 2)>>
Layout1D == <<Axis("time", Cardinality(TimeSteps))>>

Layout1DLong == <<Axis("time", Cardinality(LongSteps))>>

Samples == [TimeSteps -> 0..MaxVal]
LongSamples == [LongSteps -> 0..MaxVal]

\* The 1-D slices of an input of the given axes.
SamplesOf(dims) == [1..AxisLen(dims, "time") -> 0..MaxVal]

Identity(n) == [i \in 1..n |-> i]

Perms(n) == {f \in [1..n -> 1..n] : \A i, j \in 1..n : f[i] = f[j] => i = j}

NoEff == [stack |-> 0, fit |-> 0, draw |-> 0]

\* The calls and inputs explored: grids of points under every generator state
\* and argument; every distribution name; every layout; bootstrap alone.
GridCase(c, dims, s) ==
    /\ c.fn \in ReturnFns /\ c.distr = "gumbel" /\ dims = LayoutYX
    /\ c.multiple_points

NameCase(c, dims, s) ==
    /\ c.fn \in GridFns /\ dims = LayoutYX /\ c.multiple_points
    /\ c.arg_value \in {MaxArg, MaxArg * ValueScale} /\ c.bootstrap_runs = 1 /\ s = 0

AxesCase(c, dims, s) ==
    /\ c.fn \in GridFns /\ c.distr = "gumbel" /\ dims # Layout1DLong
    /\ \/ c.multiple_points
       \/ dims = Layout1D
    /\ c.arg_value \in {MaxArg, MaxArg * ValueScale} /\ c.bootstrap_runs = 1 /\ s = 0

\* Percentiles, in tenths of a percent.
Percents == {0, DefaultLower, 500, DefaultUpper, 1000}

\* One sample under every pair of percentiles, the lower one first.
PctCase(c, dims, s) ==
    /\ c.fn \in ReturnFns /\ c.distr = "gumbel" /\ dims = Layout1D
    /\ ~c.multiple_points /\ c.bootstrap_runs = MaxRuns

\* One longer sample under every family, whose validity of L-moments differs.
SkewCase(c, dims, s) ==
    /\ c.fn \in ReturnFns /\ c.distr \in distrs /\ dims = Layout1DLong
    /\ ~c.multiple_points /\ c.bootstrap_runs = 1
    /\ c.arg_value \in {MaxArg, MaxArg * ValueScale}

BootCase(c, dims, s) ==
    /\ c.fn = "bootstrap" /\ dims = Layout1D /\ ~c.multiple_points
    /\ c.bootstrap_runs = 1

StatInit(anyOrder) ==
    \E fn \in Fns, distr \in DistrNames, dv \in data_variables \cup {"return_level"},
       a \in 0..MaxArg, runs \in 1..MaxRuns, mp \in BOOLEAN,
       dims \in {LayoutYX, LayoutXY, LayoutSim, Layout1D, Layout1DLong},
       s \in 0..(RngMod - 1),
       lower \in Percents, upper \in Percents, attrs \in AttrMaps :
        LET c == [fn |-> fn, distr |-> distr,
                  data_variable |-> IF fn = "bootstrap" THEN dv ELSE DataVariableOf(fn),
                  arg_value |-> IF fn = "get_return_value"
                                   \/ (fn = "bootstrap" /\ dv = "return_value")
                                THEN a ELSE a * ValueScale,
                  bootstrap_runs |-> runs,
                  conf_int_lower_bound |-> lower,
                  conf_int_upper_bound |-> upper,
                  multiple_points |-> mp]
        IN  /\ fn # "bootstrap" => dv = "return_value"
            /\ lower <= upper
            /\ attrs = DefaultAttrs \/ NameCase(c, dims, s)
            /\ heap = <<attrs>> /\ ref = [NoRefs EXCEPT !.input = 1]
            /\ \/ /\ lower = DefaultLower /\ upper = DefaultUpper
                  /\ GridCase(c, dims, s) \/ NameCase(c, dims, s)
                         \/ AxesCase(c, dims, s) \/ BootCase(c, dims, s)
                         \/ SkewCase(c, dims, s)
               \/ PctCase(c, dims, s)
            /\ call = c
            /\ \E v \in [1..NPoints(dims) -> SamplesOf(dims)] :
                   ams = [dims |-> dims, vals |-> v, attrs |-> attrs]
            /\ order \in IF anyOrder THEN Perms(NPoints(dims)) ELSE {Identity(NPoints(dims))}
            /\ rng = s /\ rng0 = s
    /\ pc = "call" /\ lmom = "unbound" /\ k = 1 /\ cur = NaN /\ boot = <<>>
    /\ out = [dims |-> <<>>, vals |-> <<>>]
    /\ err = "none" /\ eff = NoEff

Raise(e) == pc' = "raised" /\ err' = e

\* The first statement of each of the five reductions: get_lmom_distr(distr).
Resolve ==
    /\ pc = "call" /\ call.fn \in GridFns
    /\ lmom' = get_lmom_distr(call.distr)
    /\ IF lmom' = DistrError THEN Raise(DistrError)
       ELSE pc' = "stack" /\ err' = err
    /\ heap' = heap
    /\ ref' = IF lmom' = DistrError THEN ref
              ELSE [ref EXCEPT !.ams_attributes = ref.input]
    /\ UNCHANGED <<call, ams, order, k, cur, boot, rng, rng0, out, eff, excVars, calcVars, selVars>>

\* if multiple_points: ams.stack(allpoints=["y", "x"]).squeeze().groupby("allpoints")
Stack ==
    /\ pc = "stack"
    /\ IF call.multiple_points
       THEN IF ~({"y", "x"} \subseteq AxisNames(ams.dims))
            THEN Raise("KeyError: stack") /\ eff' = eff
            ELSE /\ eff' = [eff EXCEPT !.stack = 1]
                 /\ IF "allpoints" \in AxisNames(Grouped(ams.dims, TRUE))
                    THEN pc' = "point" /\ err' = err
                    ELSE Raise("GroupError: allpoints")
       ELSE pc' = "point" /\ err' = err /\ eff' = eff
    /\ UNCHANGED <<call, ams, lmom, order, k, cur, boot, rng, rng0, out, excVars, calcVars, memVars, selVars>>

NextPoint == IF k = NPoints(ams.dims) THEN "combine" ELSE "point"

\* get_lmoments at one point: lmom_distr.lmom_fit, with no except clause.
LmomPoint ==
    /\ pc = "point" /\ call.fn = "get_lmoments"
    /\ LET f == lmom_fit(ams.vals[order[k]], lmom)
       IN  IF f.exc # "none" THEN Raise(f.exc) /\ UNCHANGED <<out, k>>
           ELSE /\ out' = [out EXCEPT !.vals = @ @@
                              (order[k] :> [loc |-> f.a, scale |-> f.w, unit |-> f.n])]
                /\ k' = k + 1 /\ pc' = NextPoint /\ err' = err
    /\ eff' = [eff EXCEPT !.fit = @ + 1]
    /\ UNCHANGED <<call, ams, lmom, order, cur, boot, rng, rng0, excVars, calcVars, memVars, selVars>>

\* get_ks_stat at one point.
KsPoint ==
    /\ pc = "point" /\ call.fn = "get_ks_stat"
    /\ LET r == ks_stat(ams.vals[order[k]], call.distr, lmom)
       IN  IF r.exc # "none" THEN Raise(r.exc) /\ UNCHANGED <<out, k>>
           ELSE /\ out' = [out EXCEPT !.vals = @ @@
                              (order[k] :> [d_statistic |-> r.d_statistic,
                                            p_value |-> r.p_value])]
                /\ k' = k + 1 /\ pc' = NextPoint /\ err' = err
    /\ eff' = [eff EXCEPT !.fit = @ + 1]
    /\ UNCHANGED <<call, ams, lmom, order, cur, boot, rng, rng0, excVars, calcVars, memVars, selVars>>

\* return_value / return_prob / return_period at one point: the try block.
PointFit ==
    /\ pc = "point" /\ call.fn \in ReturnFns
    /\ LET m == PointMetric(ams.vals[order[k]], call.distr, lmom,
                            call.data_variable, call.arg_value)
       IN  IF m.exc # "none" THEN Raise(m.exc) /\ cur' = cur
           ELSE cur' = m.val /\ pc' = "conf_int" /\ err' = err
    /\ boot' = <<>>
    /\ eff' = [eff EXCEPT !.fit = @ + 1]
    /\ UNCHANGED <<call, ams, lmom, order, k, rng, rng0, out, excVars, calcVars, memVars, selVars>>

\* A loop that keeps a replicate only when it is a number: a failed one is
\* drawn again.
BootstrapRun_Retry ==
    /\ pc = "conf_int" /\ Len(boot) < call.bootstrap_runs
    /\ LET b == bootstrap(ams.vals[order[k]], call.distr, call.data_variable,
                          call.arg_value, rng)
       IN  /\ rng' = b.rng
           /\ eff' = [eff EXCEPT !.fit = @ + b.fits, !.draw = @ + b.draws]
           /\ IF b.exc # "none" THEN Raise(b.exc) /\ boot' = boot
              ELSE /\ boot' = IF b.result.nan THEN boot ELSE Append(boot, b.result)
                   /\ pc' = pc /\ err' = err
    /\ UNCHANGED <<call, ams, lmom, order, k, cur, rng0, out, excVars, calcVars, memVars, selVars>>

\* conf_int: one turn of the loop, one call of bootstrap.
BootstrapRun ==
    /\ pc = "conf_int" /\ Len(boot) < call.bootstrap_runs
    /\ LET b == bootstrap(ams.vals[order[k]], call.distr, call.data_variable,
                          call.arg_value, rng)
       IN  /\ rng' = b.rng
           /\ eff' = [eff EXCEPT !.fit = @ + b.fits, !.draw = @ + b.draws]
           /\ IF b.exc # "none" THEN Raise(b.exc) /\ boot' = boot
              ELSE boot' = Append(boot, b.result) /\ pc' = pc /\ err' = err
    /\ UNCHANGED <<call, ams, lmom, order, k, cur, rng0, out, excVars, calcVars, memVars, selVars>>

\* A point whose reported estimate is the median of the replicates.
Percentiles_MedianEstimate ==
    /\ pc = "conf_int" /\ Len(boot) = call.bootstrap_runs
    /\ out' = [out EXCEPT !.vals = @ @@
                  (order[k] :> [metric |-> Percentile(boot, 500),
                                conf_int_lower_limit |->
                                    Percentile(boot, call.conf_int_lower_bound),
                                conf_int_upper_limit |->
                                    Percentile(boot, call.conf_int_upper_bound)])]
    /\ k' = k + 1 /\ pc' = NextPoint
    /\ UNCHANGED <<call, ams, lmom, order, cur, boot, rng, rng0, err, eff, excVars, calcVars, memVars, selVars>>

\* conf_int: np.percentile over bootstrap_values; the point's three outputs.
Percentiles ==
    /\ pc = "conf_int" /\ Len(boot) = call.bootstrap_runs
    /\ out' = [out EXCEPT !.vals = @ @@
                  (order[k] :> [metric |-> cur,
                                conf_int_lower_limit |->
                                    Percentile(boot, call.conf_int_lower_bound),
                                conf_int_upper_limit |->
                                    Percentile(boot, call.conf_int_upper_bound)])]
    /\ k' = k + 1 /\ pc' = NextPoint
    /\ UNCHANGED <<call, ams, lmom, order, cur, boot, rng, rng0, err, eff, excVars, calcVars, memVars, selVars>>

\* to_dataset, unstack("allpoints"): the dataset returned.
Combine ==
    /\ pc = "combine"
    /\ out' = [out EXCEPT !.dims = OutDims(ams.dims, call.multiple_points)]
    /\ LET new_ds == SetAttrs(heap, ref.ams_attributes)
       IN  /\ heap' = SetItem(new_ds.heap, new_ds.ref, "distribution", call.distr)
           /\ ref' = [ref EXCEPT !.returned = new_ds.ref]
    /\ pc' = "done"
    /\ UNCHANGED <<call, ams, lmom, order, k, cur, boot, rng, rng0, err, eff, excVars, calcVars, selVars>>

\* bootstrap called on one 1-D sample.
BootstrapCall ==
    /\ pc = "call" /\ call.fn = "bootstrap"
    /\ LET b == bootstrap(ams.vals[1], call.distr, call.data_variable,
                          call.arg_value, rng)
       IN  /\ rng' = b.rng
           /\ eff' = [eff EXCEPT !.fit = @ + b.fits, !.draw = @ + b.draws]
           /\ IF b.exc # "none" THEN Raise(b.exc) /\ out' = out
              ELSE /\ out' = [out EXCEPT !.vals = (1 :> [result |-> b.result])]
                   /\ pc' = "done" /\ err' = err
    /\ UNCHANGED <<call, ams, lmom, order, k, cur, boot, rng0, excVars, calcVars, memVars, selVars>>

StatNext ==
    \/ Resolve
    \/ Stack
    \/ LmomPoint
    \/ KsPoint
    \/ PointFit
    \/ BootstrapRun
    \/ Percentiles
    \/ Combine
    \/ BootstrapCall

----------------------------------------------------------------------------
(* The exceedance engine *)

DirectionError == "ValueError: Unknown value for threshold_direction"
GroupbyError == "ValueError: Duration options other than 1day not yet implmented"
DurationError == "ValueError: Duration option not yet implemented"
SmoothingError == "ValueError: Smoothing option not yet implemented"
PeriodError == "ValueError: Other period_length options not yet implemented"

\* The comparison with the bound included.
ExceedsOrEqual(v, threshold_value, threshold_direction) ==
    IF threshold_direction = "above" THEN v >= threshold_value
    ELSE v <= threshold_value

\* da > threshold_value, da < threshold_value, one entry.
Exceeds(v, threshold_value, threshold_direction) ==
    IF threshold_direction = "above" THEN v > threshold_value
    ELSE v < threshold_value

\* The distinct keys of a sorted sequence, in order.
RECURSIVE Uniq(_)
Uniq(s) ==
    IF Len(s) <= 1 THEN s
    ELSE IF s[1] = s[2] THEN Uniq(Tail(s))
    ELSE <<s[1]>> \o Uniq(Tail(s))

\* .groupby(key).sum() of one point's flags: per distinct key, how many
\* entries with that key are set.
GroupSum(flags, keys) ==
    LET u == Uniq(keys)
    IN  [g \in 1..Len(u) |->
            Cardinality({i \in 1..Len(keys) : keys[i] = u[g] /\ flags[i]})]

Years(time) == [i \in 1..Len(time) |-> time[i].year]

\* A count that leaves out the periods in which nothing qualifies.
RECURSIVE DropZeros(_, _)
DropZeros(ys, cs) ==
    IF ys = <<>> THEN [year |-> <<>>, count |-> <<>>]
    ELSE LET rest == DropZeros(Tail(ys), Tail(cs))
         IN  IF Head(cs) = 0 THEN rest
             ELSE [year |-> <<Head(ys)>> \o rest.year,
                   count |-> <<Head(cs)>> \o rest.count]

YearSum_NoZeros(ev) ==
    [year |-> IF DOMAIN ev.vals = {} THEN <<>>
              ELSE DropZeros(Uniq(Years(ev.time)), GroupSum(ev.vals[1], Years(ev.time))).year,
     vals |-> [p \in DOMAIN ev.vals |->
                  DropZeros(Uniq(Years(ev.time)),
                            GroupSum(ev.vals[p], Years(ev.time))).count]]

\* events_da.groupby("time.year").sum()
YearSum(ev) ==
    [year |-> Uniq(Years(ev.time)),
     vals |-> [p \in DOMAIN ev.vals |-> GroupSum(ev.vals[p], Years(ev.time))]]

\* A day collapse that keeps the flag of the day's first entry.
DayFirst(ev) ==
    [time |-> Uniq(ev.time),
     vals |-> [p \in DOMAIN ev.vals |->
                  [g \in 1..Len(Uniq(ev.time)) |->
                      LET i == CHOOSE j \in 1..Len(ev.time) :
                                  /\ ev.time[j] = Uniq(ev.time)[g]
                                  /\ \A h \in 1..(j - 1) : ev.time[h] # ev.time[j]
                      IN  ev.vals[p][i]]]]

\* events_da.groupby("time.date").sum() > 0, the dates as the new time axis.
DayAny(ev) ==
    [time |-> Uniq(ev.time),
     vals |-> [p \in DOMAIN ev.vals |->
                  LET c == GroupSum(ev.vals[p], ev.time)
                  IN  [g \in 1..Len(c) |-> c[g] > 0]]]

\* The option checks with smoothing let through.
OptionsError_SmoothingIgnored(c) ==
    IF c.duration # "None" THEN DurationError ELSE "none"

\* The argument checks that open get_exceedance_count.
OptionsError(c) ==
    IF c.duration # "None" THEN DurationError
    ELSE IF c.smoothing # "None" THEN SmoothingError
    ELSE "none"

Stamps == {[year |-> y, day |-> d] : y \in CalendarYears, d \in DaysOfYear}

Before(a, b) == a.year < b.year \/ (a.year = b.year /\ a.day <= b.day)

\* Time axes: stamps in time order; stamps of one day are sub-daily entries.
TimeAxes ==
    {t \in [TimeEntries -> Stamps] :
        \A i, j \in TimeEntries : i < j => Before(t[i], t[j])}

XFns == {"get_exceedance_events", "get_exceedance_count"}

NoXEff == [cmp |-> 0, grp |-> 0]

\* The calls explored: every series under the supported options, and every
\* option under every series of one point.
DataCase(c, npts) ==
    /\ npts = 2
    /\ c.threshold_direction \in {"above", "below"} /\ c.period_length = "1year"
    /\ c.groupby \in {"None", "1day"} /\ c.duration = "None" /\ c.smoothing = "None"

OptionCase(c, npts) == npts = 1 /\ c.threshold_value = 0

ExcInit ==
    /\ \E fn \in XFns, th \in 0..MaxVal, pl \in {"1year", "1month"},
          dir \in {"above", "below", "over"}, du \in {"None", "3days"},
          gb \in {"None", "1day", "1week"}, sm \in {"None", "5days"}, npts \in 1..2 :
        LET c == [fn |-> fn, threshold_value |-> th, period_length |-> pl,
                  threshold_direction |-> dir, duration |-> du, groupby |-> gb,
                  smoothing |-> sm]
        IN  /\ fn = "get_exceedance_events" => pl = "1year" /\ du = "None" /\ sm = "None"
            /\ DataCase(c, npts) \/ OptionCase(c, npts)
            /\ xcall = c
            /\ \E t \in TimeAxes, v \in [1..npts -> [TimeEntries -> 0..MaxVal]] :
                   xda = [time |-> t, vals |-> v, attrs |-> DefaultAttrs]
            /\ heap = <<DefaultAttrs>> /\ ref = [NoRefs EXCEPT !.input = 1]
            /\ xpc = IF fn = "get_exceedance_count" THEN "count" ELSE "events"
    /\ events = [time |-> <<>>, vals |-> <<>>]
    /\ xout = [time |-> <<>>, vals |-> <<>>]
    /\ xerr = "none" /\ xeff = NoXEff

XRaise(e) == xpc' = "raised" /\ xerr' = e

\* get_exceedance_count: the checks of duration and smoothing.
CheckOptions ==
    /\ xpc = "count"
    /\ IF OptionsError(xcall) # "none" THEN XRaise(OptionsError(xcall))
       ELSE xpc' = "events" /\ xerr' = xerr
    /\ UNCHANGED <<xcall, xda, events, xout, xeff, statVars, calcVars, memVars, selVars>>

\* get_exceedance_events: the comparison with the threshold.
Flag ==
    /\ xpc = "events"
    /\ IF xcall.threshold_direction \in {"above", "below"}
       THEN /\ events' = [time |-> xda.time,
                          vals |-> [p \in DOMAIN xda.vals |->
                              [i \in 1..Len(xda.time) |->
                                  Exceeds(xda.vals[p][i], xcall.threshold_value,
                                          xcall.threshold_direction)]]]
            /\ xeff' = [xeff EXCEPT !.cmp = @ + 1]
            /\ xpc' = "groupby" /\ xerr' = xerr
       ELSE XRaise(DirectionError) /\ UNCHANGED <<events, xeff>>
    /\ UNCHANGED <<xcall, xda, xout, statVars, calcVars, memVars, selVars>>

AfterEvents == IF xcall.fn = "get_exceedance_count" THEN "period" ELSE "done"

\* get_exceedance_events: the groupby option; the events returned.
GroupBy ==
    /\ xpc = "groupby"
    /\ IF xcall.groupby = "None"
       THEN events' = events /\ xeff' = xeff /\ xpc' = AfterEvents /\ xerr' = xerr
       ELSE IF xcall.groupby = "1day"
       THEN /\ events' = DayAny(events)
            /\ xeff' = [xeff EXCEPT !.grp = @ + 1]
            /\ xpc' = AfterEvents /\ xerr' = xerr
       ELSE XRaise(GroupbyError) /\ UNCHANGED <<events, xeff>>
    /\ xout' = IF xpc' = "done" THEN events' ELSE xout
    /\ UNCHANGED <<xcall, xda, statVars, calcVars, memVars, selVars>>

\* get_exceedance_count: the count per period.
Period ==
    /\ xpc = "period"
    /\ IF xcall.period_length = "1year"
       THEN /\ xout' = YearSum(events)
            /\ xeff' = [xeff EXCEPT !.grp = @ + 1]
            /\ xpc' = "done" /\ xerr' = xerr
       ELSE XRaise(PeriodError) /\ UNCHANGED <<xout, xeff>>
    /\ UNCHANGED <<xcall, xda, events, statVars, calcVars, memVars, selVars>>

ExcNext ==
    \/ CheckOptions
    \/ Flag
    \/ GroupBy
    \/ Period

----------------------------------------------------------------------------
(* The annual-maxima extractor *)

ExtremesError == "ValueError: invalid extremes type"

extremes_types == {"max"}

AmsYears == 1..3

\* Time axes over three calendar years: a year may have no entry at all.
AmsTimeAxes ==
    {t \in [TimeEntries -> {[year |-> y, day |-> d] : y \in AmsYears, d \in DaysOfYear}] :
        \A i, j \in TimeEntries : i < j => Before(t[i], t[j])}

\* The bins of resample(time="A"): every calendar year from that of the first
\* entry to that of the last.
YearBins(time) ==
    [g \in 1..(time[Len(time)].year - time[1].year + 1) |-> time[1].year + g - 1]

\* The smallest value of a bin, NaN for a bin without entries.
BinMin(vs, time, y) ==
    LET in == {i \in 1..Len(time) : time[i].year = y}
    IN  IF in = {} THEN NaN
        ELSE Num(CHOOSE m \in {vs[i] : i \in in} : \A i \in in : vs[i] >= m)

\* A reduction that takes the minimum of each year.
AnnualMin(da) ==
    [year |-> YearBins(da.time),
     vals |-> [p \in DOMAIN da.vals |->
                  [g \in 1..Len(YearBins(da.time)) |->
                      BinMin(da.vals[p], da.time, YearBins(da.time)[g])]]]

\* The largest value of a bin, NaN for a bin without entries.
BinMax(vs, time, y) ==
    LET in == {i \in 1..Len(time) : time[i].year = y}
    IN  IF in = {} THEN NaN
        ELSE Num(CHOOSE m \in {vs[i] : i \in in} : \A i \in in : vs[i] <= m)

\* da.resample(time="A").max(keep_attrs=True)
AnnualMax(da) ==
    [year |-> YearBins(da.time),
     vals |-> [p \in DOMAIN da.vals |->
                  [g \in 1..Len(YearBins(da.time)) |->
                      BinMax(da.vals[p], da.time, YearBins(da.time)[g])]]]

\* The four annotations get_ams writes on its result.
AmsAttrs ==
    [key \in {"extreme value extraction method", "extremes type", "block size",
              "timeseries type"} |->
        CASE key = "extreme value extraction method" -> "block maxima"
          [] key = "extremes type" -> "maxima"
          [] key = "block size" -> "1 year"
          [] key = "timeseries type" -> "annual max series"]

AmsInit ==
    /\ \E et \in {"max", "min"}, npts \in 1..2, attrs \in AttrMaps :
        /\ xcall = [fn |-> "get_ams", extremes_type |-> et]
        /\ et = "max" \/ npts = 1
        /\ attrs = DefaultAttrs \/ npts = 1
        /\ \E t \in AmsTimeAxes, v \in [1..npts -> [TimeEntries -> 0..MaxVal]] :
               xda = [time |-> t, vals |-> v, attrs |-> attrs]
        /\ heap = <<attrs>> /\ ref = [NoRefs EXCEPT !.input = 1]
    /\ xpc = "ams"
    /\ events = [time |-> <<>>, vals |-> <<>>]
    /\ xout = [time |-> <<>>, vals |-> <<>>]
    /\ xerr = "none" /\ xeff = NoXEff

\* get_ams: the check of extremes_type.
CheckExtremes ==
    /\ xpc = "ams"
    /\ IF xcall.extremes_type \notin extremes_types THEN XRaise(ExtremesError)
       ELSE xpc' = "resample" /\ xerr' = xerr
    /\ UNCHANGED <<xcall, xda, events, xout, xeff, statVars, calcVars, memVars, selVars>>

\* get_ams: the reduction, whose result keeps the input's attrs in a
\* dictionary of its own, and the annotations written on it.
Resample ==
    /\ xpc = "resample"
    /\ xout' = AnnualMax(xda)
    /\ LET ams_ == SetAttrs(heap, ref.input)
       IN  /\ heap' = [ams_.heap EXCEPT ![ams_.ref] = AmsAttrs @@ @]
           /\ ref' = [ref EXCEPT !.returned = ams_.ref]
    /\ xpc' = "done"
    /\ UNCHANGED <<xcall, xda, events, xerr, xeff, statVars, calcVars, selVars>>

AmsNext ==
    \/ CheckExtremes
    \/ Resample

----------------------------------------------------------------------------
(* One call of the calculator, and its result fed back *)

\* The unit a sample's values are counts of: 1, or the 1e-5 of round(_, 5).
SampleUnits == {1, ValueScale}

\* get_fitted_distr of the sample whose values are counts of 1/unit: the
\* L-moments scale with the sample.
FitInUnits(sample, distr, unit) ==
    LET f == get_fitted_distr(sample, distr, get_lmom_distr(distr))
    IN  IF f.exc = "none" THEN [f EXCEPT !.n = @ * unit] ELSE f

\* The calls explored: every fit of a sample in either unit, under every
\* kind; return periods 0 and 1 and those of the round trip; magnitudes that
\* are whole numbers of the sample's unit.
CalcInit ==
    /\ \E sample \in Samples \cup LongSamples, distr \in distrs, unit \in SampleUnits,
          dv \in data_variables, a \in (0..MaxArg) \cup ReturnPeriods :
        /\ FitInUnits(sample, distr, unit).exc = "none"
        /\ dv # "return_value" => a \in 0..MaxArg
        /\ fitted_distr = FitInUnits(sample, distr, unit)
        /\ calc = [data_variable |-> dv, unit |-> unit,
                   arg_value |-> IF dv = "return_value" THEN a
                                 ELSE a * (ValueScale \div unit)]
    /\ cpc = "calc" /\ result = NaN /\ period = NaN
    /\ heap = <<>> /\ ref = NoRefs

\* calculate_return(fitted_distr, data_variable, arg_value)
CalculateReturn ==
    /\ cpc = "calc"
    /\ result' = calculate_return(fitted_distr, calc.data_variable, calc.arg_value)
    /\ cpc' = IF calc.data_variable = "return_value" /\ ~result'.nan
              THEN "back" ELSE "done"
    /\ UNCHANGED <<calc, fitted_distr, period, statVars, excVars, memVars, selVars>>

\* The return value fed back: calculate_return(fitted_distr, "return_period",
\* result).
FeedBack ==
    /\ cpc = "back"
    /\ period' = calculate_return(fitted_distr, "return_period", result.val)
    /\ cpc' = "done"
    /\ UNCHANGED <<calc, fitted_distr, result, statVars, excVars, memVars, selVars>>

CalcNext ==
    \/ CalculateReturn
    \/ FeedBack

----------------------------------------------------------------------------
(* The selectors *)

\* Python's None.
None == "None"

\* The entries of a list, as a set.
Entries(list) == {list[i] : i \in 1..Len(list)}

\* The list without the entries outside S, the others in their order.
RECURSIVE Keep(_, _)
Keep(list, S) ==
    IF list = <<>> THEN <<>>
    ELSE IF Head(list) \in S THEN <<Head(list)>> \o Keep(Tail(list), S)
    ELSE Keep(Tail(list), S)

\* The non-empty lists of entries of the list, in its order.
SubLists(list) == {Keep(list, S) : S \in SUBSET Entries(list) \ {{}}}

\* The objects of area_subset.
AreaSubsets == {"none", "lat/lon", "states", "CA counties", "CA watersheds"}

\* The categories that _update_cached_area and view look up.
Categories == {"states", "CA counties", "CA watersheds"}

\* The keys of get_us_states(), in the order of the dictionary.
get_us_states == <<"CA", "NV", "OR", "WA", "UT", "MT", "ID", "AZ", "CO", "NM", "WY">>

\* County and watershed names as the two services may deliver them, sorted
\* by name.
CountyNames == <<"Alameda", "Alpine", "Amador">>

WatershedNames == <<"Aliso Creek", "Bear River", "Cache Creek">>

\* boundary_dict(): per category the keys of its lookup dictionary.
boundary_dicts ==
    {("states" :> get_us_states) @@ ("CA counties" :> counties)
         @@ ("CA watersheds" :> watersheds) :
        counties \in SubLists(CountyNames), watersheds \in SubLists(WatershedNames)}

\* _update_cached_area: the handler of a change of area_subset.
update_cached_area(loc) ==
    IF loc.area_subset \in Categories
    THEN [loc EXCEPT !.objects = loc.geography_choose[loc.area_subset],
                     !.cached_area = loc.geography_choose[loc.area_subset][1]]
    ELSE loc

\* area_subset = v for a v other than the present value: param stores it and
\* runs the handler.
SetAreaSubset(loc, v) == update_cached_area([loc EXCEPT !.area_subset = v])

\* The lookup of view(): the key found, or the error of a key that is not in
\* the category's dictionary.
view(loc) ==
    IF loc.area_subset \in Categories
    THEN IF loc.cached_area \in Entries(loc.geography_choose[loc.area_subset])
         THEN loc.cached_area ELSE "KeyError"
    ELSE loc.area_subset

\* LocSelectorArea(**params): param stores the parameters given, then the
\* options become the states and cached_area "CA".
LocInit ==
    \E area_subset \in AreaSubsets, geography_choose \in boundary_dicts :
        location = [area_subset |-> area_subset,
                    geography_choose |-> geography_choose,
                    objects |-> geography_choose["states"],
                    cached_area |-> "CA",
                    shape |-> None]

\* The user picks another area_subset.
ChangeAreaSubset ==
    /\ location.area_subset \in AreaSubsets
    /\ \E v \in AreaSubsets \ {location.area_subset} :
           location' = SetAreaSubset(location, v)
    /\ UNCHANGED <<selections, statVars, excVars, calcVars, memVars>>

\* The user picks one of the options offered for cached_area.
SelectCachedArea ==
    /\ location.area_subset \in AreaSubsets
    /\ \E v \in Entries(location.objects) :
           location' = [location EXCEPT !.cached_area = v]
    /\ UNCHANGED <<selections, statVars, excVars, calcVars, memVars>>

\* The panel renders view().
View ==
    /\ location.area_subset \in AreaSubsets
    /\ location' = [location EXCEPT !.shape = view(location)]
    /\ UNCHANGED <<selections, statVars, excVars, calcVars, memVars>>

LocNext ==
    \/ ChangeAreaSubset
    \/ SelectCachedArea
    \/ View

LocIdle ==
    location = [area_subset |-> "idle", geography_choose |-> <<>>, objects |-> <<>>,
                cached_area |-> None, shape |-> None]

\* The resolutions and scenario names a catalogue may offer.
Resolutions == {"45 km", "9 km"}

ScenarioNames == <<"Historical Climate", "SSP 2-4.5", "SSP 3-7.0">>

\* The choices handed to DataSelector: the list of resolutions, and per
\* resolution the keys of its scenario dictionary.
ChoiceSets ==
    {[resolutions |-> resolutions, scenarios |-> scenarios] :
        resolutions \in {<<"45 km", "9 km">>, <<"9 km", "45 km">>},
        scenarios \in [Resolutions -> SubLists(ScenarioNames)]}

\* _update_scenarios: the handler of a change of resolution or of
\* append_historical.
update_scenarios(sel) ==
    LET _list_of_scenarios == sel.choices.scenarios[sel.resolution]
    IN  [sel EXCEPT !.objects =
                        IF sel.append_historical
                        THEN Keep(_list_of_scenarios,
                                  Entries(_list_of_scenarios) \ {"Historical Climate"})
                        ELSE _list_of_scenarios,
                    !.scenario = <<None>>]

\* resolution = v, append_historical = v for a v other than the present
\* value: param stores it and runs the handler.
SetResolution(sel, v) == update_scenarios([sel EXCEPT !.resolution = v])

SetAppendHistorical(sel, v) == update_scenarios([sel EXCEPT !.append_historical = v])

\* DataSelector(**params): param stores the parameters given; resolution
\* becomes the first one, which runs the handler; then the options become
\* the scenarios of "45 km".
DataInit ==
    \E choices \in ChoiceSets, append_historical \in BOOLEAN :
        selections =
            [SetResolution([choices |-> choices, resolution |-> None,
                            append_historical |-> append_historical,
                            scenario |-> <<>>, objects |-> <<>>],
                           choices.resolutions[1])
                EXCEPT !.objects = choices.scenarios["45 km"]]

\* The user picks another resolution.
ChangeResolution ==
    /\ selections.resolution \in Resolutions
    /\ \E v \in Entries(selections.choices.resolutions) \ {selections.resolution} :
           selections' = SetResolution(selections, v)
    /\ UNCHANGED <<location, statVars, excVars, calcVars, memVars>>

\* The user ticks or unticks append_historical.
ChangeAppendHistorical ==
    /\ selections.resolution \in Resolutions
    /\ selections' = SetAppendHistorical(selections, ~selections.append_historical)
    /\ UNCHANGED <<location, statVars, excVars, calcVars, memVars>>

\* The user ticks some of the scenarios offered.
SelectScenario ==
    /\ selections.resolution \in Resolutions
    /\ selections.objects # <<>>
    /\ \E v \in SubLists(selections.objects) :
           selections' = [selections EXCEPT !.scenario = v]
    /\ UNCHANGED <<location, statVars, excVars, calcVars, memVars>>

DataNext ==
    \/ ChangeResolution
    \/ ChangeAppendHistorical
    \/ SelectScenario

DataIdle ==
    selections = [choices |-> <<>>, resolution |-> "idle", append_historical |-> FALSE,
                  scenario |-> <<>>, objects |-> <<>>]

SelIdle == LocIdle /\ DataIdle

----------------------------------------------------------------------------
(* Specifications *)

CalcIdle ==
    /\ calc = [data_variable |-> "none"] /\ fitted_distr = NoFit("none")
    /\ cpc = "idle" /\ result = NaN /\ period = NaN

StatIdle ==
    /\ call = [fn |-> "none"] /\ ams = [dims |-> <<>>, vals |-> <<>>, attrs |-> <<>>]
    /\ pc = "idle" /\ lmom = "unbound" /\ order = <<>> /\ k = 1 /\ cur = NaN
    /\ boot = <<>> /\ rng = 0 /\ rng0 = 0
    /\ out = [dims |-> <<>>, vals |-> <<>>] /\ err = "none" /\ eff = NoEff

ExcIdle ==
    /\ xcall = [fn |-> "none"] /\ xda = [time |-> <<>>, vals |-> <<>>, attrs |-> <<>>]
    /\ xpc = "idle" /\ events = [time |-> <<>>, vals |-> <<>>]
    /\ xout = [time |-> <<>>, vals |-> <<>>] /\ xerr = "none" /\ xeff = NoXEff

\* A statistics call; the points are evaluated in the order of the stacked axis.
InitStat == StatInit(FALSE) /\ ExcIdle /\ CalcIdle /\ SelIdle
SpecStat == InitStat /\ [][StatNext]_vars

\* A statistics call whose points are evaluated in any order.
InitOrder == StatInit(TRUE) /\ ExcIdle /\ CalcIdle /\ SelIdle
SpecOrder == InitOrder /\ [][StatNext]_vars

\* An exceedance call.
InitExc == ExcInit /\ StatIdle /\ CalcIdle /\ SelIdle
SpecExc == InitExc /\ [][ExcNext]_vars

\* A call of the calculator on a fitted distribution.
InitCalc == CalcInit /\ StatIdle /\ ExcIdle /\ SelIdle
SpecCalc == InitCalc /\ [][CalcNext]_vars

\* A call of get_ams.
InitAms == AmsInit /\ StatIdle /\ CalcIdle /\ SelIdle
SpecAms == InitAms /\ [][AmsNext]_vars

\* A call of any operation on a labelled series.
InitCore == InitStat \/ InitExc \/ InitAms
CoreNext == StatNext \/ ExcNext \/ AmsNext
SpecCore == InitCore /\ [][CoreNext]_vars

NoCall == StatIdle /\ ExcIdle /\ CalcIdle /\ heap = <<>> /\ ref = NoRefs

\* A LocSelectorArea after its construction.
InitLoc == LocInit /\ DataIdle /\ NoCall
SpecLoc == InitLoc /\ [][LocNext]_vars

\* A DataSelector after its construction.
InitData == DataInit /\ LocIdle /\ NoCall
SpecData == InitData /\ [][DataNext]_vars

----------------------------------------------------------------------------
(* Claims about the statistics call *)

FitOf(sample) == lmom_fit(sample, get_lmom_distr(call.distr))

FitFails(sample) == FitOf(sample).exc # "none"

Returned == pc = "done"

\* The point whose confidence limits were reported last, when the loop of
\* conf_int has ended and its collection is still in hand.
LimitsReported == call.fn \in ReturnFns /\ pc \in {"point", "combine", "done"} /\ k > 1

\* C1: in get_return_value, get_return_prob and get_return_period over several
\* points, a fit that fails at a point with a numerical error is never raised
\* by the call; the metric at that point is NaN, and the metric at every other
\* point is what the calculator yields for that point's own fit.
C1_FitFailureStaysAtItsPoint ==
    (call.fn \in ReturnFns /\ call.distr \in distrs) =>
        /\ err \notin {FitError, "ZeroDivisionError"}
        /\ \A p \in DOMAIN out.vals :
              out.vals[p].metric =
                  IF FitFails(ams.vals[p]) THEN NaN
                  ELSE calculate_return(FitOf(ams.vals[p]), call.data_variable,
                                        call.arg_value)
        /\ Returned => DOMAIN out.vals = 1..NPoints(ams.dims)

\* C1 witness: a call over two points has returned; the fit failed at one
\* point, whose metric is NaN, and the other point has a number.
C1_Witness ==
    /\ Returned /\ call.fn = "get_return_value" /\ NPoints(ams.dims) = 2
    /\ FitFails(ams.vals[1]) /\ ~FitFails(ams.vals[2])
    /\ out.vals[1].metric = NaN /\ ~out.vals[2].metric.nan

\* C2: get_lmoments over several points is not aborted by the fitter's error
\* at one point.
C2_LmomentsSurvivesFitFailure ==
    (call.fn = "get_lmoments" /\ call.distr \in distrs /\ NPoints(ams.dims) > 1)
        => err # FitError

\* C3: whatever the order in which the points are evaluated, the output at
\* every point, confidence bounds included, is that of the evaluation in the
\* order of the stacked axis.
C3_OrderOfPointsIsImmaterial ==
    (Returned /\ call.fn \in ReturnFns) =>
        out.vals = ReturnOverPoints(ams.vals, call, 1, rng0)

\* C4: with multiple_points, the metric and both confidence bounds reported at
\* each point of a grid are those of the same operation run on that point's
\* 1-D slice alone, from the same generator state.
C4_PointEqualsSliceAlone ==
    (Returned /\ call.fn \in ReturnFns /\ call.multiple_points) =>
        \A p \in DOMAIN out.vals :
            out.vals[p] = ReturnAtPoint(ams.vals[p], call, rng0).cell

\* C5: the output's axes are the input's axes other than time, with the same
\* lengths and in the same order.
C5_NonTimeAxesPreserved ==
    (Returned /\ call.fn \in GridFns) => out.dims = Without(ams.dims, {"time"})

\* C6: a distribution name outside the five makes each of the five reductions
\* and bootstrap raise a configuration error before anything is computed: no
\* stacking, no fit, no draw from the generator.
C6_UnknownDistrFailsFirst ==
    (call.fn \in Fns /\ call.distr \notin distrs /\ pc # "call") =>
        /\ pc = "raised"
        /\ err \in {DistrError, DataVariableError}
        /\ call.data_variable \in data_variables \cup {"none"} => err = DistrError
        /\ eff = NoEff /\ rng = rng0 /\ out.vals = <<>>

\* C6 witness: get_return_value was called with an unknown name and raised.
C6_Witness ==
    /\ call.fn = "get_return_value" /\ call.distr = "normal"
    /\ pc = "raised" /\ err = DistrError

\* C16: at every point processed by get_return_value, get_return_prob or
\* get_return_period, when fitting the family to the point's sample fails,
\* both confidence limits reported for the point are NaN.
C16_LimitsNaNWhenFitFails ==
    (call.fn \in ReturnFns /\ call.distr \in distrs) =>
        \A p \in DOMAIN out.vals :
            FitFails(ams.vals[p]) =>
                /\ out.vals[p].conf_int_lower_limit = NaN
                /\ out.vals[p].conf_int_upper_limit = NaN

\* C17: conf_int does not filter failed replicates before taking percentiles:
\* whenever at least one of the bootstrap_runs outcomes is NaN, both limits
\* are NaN, even when every other replicate succeeded.
C17_NaNReachesBothLimits ==
    (LimitsReported /\ AnyNaN(boot)) =>
        /\ out.vals[order[k - 1]].conf_int_lower_limit = NaN
        /\ out.vals[order[k - 1]].conf_int_upper_limit = NaN

\* C17 witness: limits were reported over two outcomes, a number and then a
\* NaN, and both are NaN.
C17_Witness ==
    /\ LimitsReported /\ Len(boot) = 2 /\ ~boot[1].nan /\ boot[2].nan
    /\ out.vals[order[k - 1]].conf_int_lower_limit = NaN
    /\ out.vals[order[k - 1]].conf_int_upper_limit = NaN

\* The generator's state after i calls of bootstrap on the sample from state s.
RECURSIVE RngAfterRuns(_, _, _)
RngAfterRuns(sample, i, s) ==
    IF i = 0 THEN s
    ELSE RngAfterRuns(sample, i - 1, Choice(sample, Len(sample), s).rng)

\* Its state when the p-th point of the stacked axis is reached.
RECURSIVE RngAtPoint(_, _, _, _)
RngAtPoint(vals, runs, p, s) ==
    IF p = 1 THEN s
    ELSE RngAfterRuns(vals[p - 1], runs, RngAtPoint(vals, runs, p - 1, s))

\* The i-th resample that conf_int's loop draws at the point being evaluated.
Drawn(i) ==
    LET sample == ams.vals[order[k]]
    IN  Choice(sample, Len(sample),
               RngAfterRuns(sample, i - 1,
                            RngAtPoint(ams.vals, call.bootstrap_runs, k, rng0))).sample

\* C15: conf_int returns lower <= upper whenever no bootstrap replicate
\* failed, i.e. there is no NaN among the bootstrap_runs outcomes; this for
\* every sample, metric kind, argument and pair of percentiles.
C15_LowerAtMostUpper ==
    (LimitsReported /\ ~AnyNaN(boot)) =>
        /\ ~out.vals[order[k - 1]].conf_int_lower_limit.nan
        /\ ~out.vals[order[k - 1]].conf_int_upper_limit.nan
        /\ out.vals[order[k - 1]].conf_int_lower_limit.val
               <= out.vals[order[k - 1]].conf_int_upper_limit.val

\* C15 witness: limits were reported over two outcomes, both numbers and not
\* the same, and the lower limit is below the upper one.
C15_Witness ==
    /\ LimitsReported /\ Len(boot) = 2 /\ ~AnyNaN(boot) /\ boot[1] # boot[2]
    /\ out.vals[order[k - 1]].conf_int_lower_limit.val
           < out.vals[order[k - 1]].conf_int_upper_limit.val

\* C14: conf_int calls bootstrap exactly bootstrap_runs times and takes the
\* percentiles over exactly bootstrap_runs outcomes, one per resample drawn, in
\* the order drawn: the outcome of a resample whose fit fails is NaN, and it
\* is neither skipped, drawn again nor removed.
C14_OneOutcomePerReplicate ==
    (call.fn \in ReturnFns /\ call.distr \in distrs) =>
        /\ pc = "conf_int" =>
              /\ Len(boot) <= call.bootstrap_runs
              /\ eff.draw = ((k - 1) * call.bootstrap_runs + Len(boot))
                                * Len(ams.vals[order[k]])
              /\ \A i \in 1..Len(boot) :
                    boot[i] = IF FitFails(Drawn(i)) THEN NaN
                              ELSE calculate_return(FitOf(Drawn(i)),
                                                    call.data_variable, call.arg_value)
        /\ (pc \in {"point", "combine", "done"} /\ k > 1) =>
              /\ Len(boot) = call.bootstrap_runs
              /\ eff.draw = (k - 1) * call.bootstrap_runs * Len(ams.vals[order[k - 1]])
              /\ out.vals[order[k - 1]].conf_int_lower_limit =
                     Percentile(boot, call.conf_int_lower_bound)
              /\ out.vals[order[k - 1]].conf_int_upper_limit =
                     Percentile(boot, call.conf_int_upper_bound)

\* C14 witness: the loop of a call with two runs has ended; the fit of the
\* first resample failed and that of the second did not, and the collection
\* holds NaN and then a number.
C14_Witness ==
    /\ call.fn \in ReturnFns /\ call.distr \in distrs
    /\ pc = "conf_int" /\ call.bootstrap_runs = 2 /\ Len(boot) = 2
    /\ FitFails(Drawn(1)) /\ ~FitFails(Drawn(2))
    /\ boot[1] = NaN /\ ~boot[2].nan

\* The metadata of the dataset returned.
ReturnedAttrs == heap[ref.returned]

\* C18 as stated: the dataset returned by get_lmoments, get_ks_stat,
\* get_return_value, get_return_prob and get_return_period carries every
\* key/value pair of the input's metadata and the key "distribution" with the
\* family name.
C18_MetadataCarried ==
    (Returned /\ call.fn \in GridFns) =>
        /\ \A key \in DOMAIN ams.attrs :
              key \in DOMAIN ReturnedAttrs /\ ReturnedAttrs[key] = ams.attrs[key]
        /\ "distribution" \in DOMAIN ReturnedAttrs
        /\ ReturnedAttrs["distribution"] = call.distr

\* C18, amended: it carries every key/value pair of the input's metadata
\* whose key is not "distribution", and the key "distribution" with the family
\* name, and nothing else.
C18_MetadataCarriedButDistribution ==
    (Returned /\ call.fn \in GridFns) =>
        /\ \A key \in DOMAIN ams.attrs \ {"distribution"} :
              key \in DOMAIN ReturnedAttrs /\ ReturnedAttrs[key] = ams.attrs[key]
        /\ "distribution" \in DOMAIN ReturnedAttrs
        /\ ReturnedAttrs["distribution"] = call.distr
        /\ DOMAIN ReturnedAttrs = DOMAIN ams.attrs \cup {"distribution"}

\* C18 witness: get_ks_stat has returned for an input that carries units and
\* a distribution entry of its own; the result has the units and the family
\* name.
C18_Witness ==
    /\ Returned /\ call.fn = "get_ks_stat"
    /\ DOMAIN ams.attrs = {"units", "distribution"}
    /\ ams.attrs["distribution"] # call.distr
    /\ ReturnedAttrs["units"] = ams.attrs["units"]
    /\ ReturnedAttrs["distribution"] = call.distr

\* C21: the per-point KS test of get_ks_stat never propagates a numerical
\* error: at a point whose fit fails d_statistic and p_value are both NaN, at
\* any other point both are set by the test, and the other points are still
\* evaluated.
C21_KsBothOrNeither ==
    (call.fn = "get_ks_stat" /\ call.distr \in distrs) =>
        /\ err \notin {FitError, "ZeroDivisionError"}
        /\ \A p \in DOMAIN out.vals :
              /\ out.vals[p].d_statistic.nan = out.vals[p].p_value.nan
              /\ out.vals[p].d_statistic.nan = FitFails(ams.vals[p])
              /\ ~FitFails(ams.vals[p]) =>
                    out.vals[p].d_statistic =
                        Num(KsD(FitOf(ams.vals[p]), Sort(ams.vals[p]), 1))
        /\ Returned => DOMAIN out.vals = 1..NPoints(ams.dims)

\* C21 witness: get_ks_stat has returned for two points; the fit failed at
\* the first, which has (NaN, NaN), and the second has both numbers.
C21_Witness ==
    /\ Returned /\ call.fn = "get_ks_stat" /\ NPoints(ams.dims) = 2
    /\ FitFails(ams.vals[1]) /\ ~FitFails(ams.vals[2])
    /\ out.vals[1].d_statistic = NaN /\ out.vals[1].p_value = NaN
    /\ ~out.vals[2].d_statistic.nan /\ ~out.vals[2].p_value.nan

\* The same call with one replicate, the default percentiles and the
\* generator in its first state.
ReferenceRun ==
    [call EXCEPT !.bootstrap_runs = 1, !.conf_int_lower_bound = DefaultLower,
                 !.conf_int_upper_bound = DefaultUpper]

\* C22: the point estimate of get_return_value / get_return_prob /
\* get_return_period does not depend on the number of replicates, the
\* percentiles or the state of the generator: every run reports at every
\* point the estimate of the reference run on the same input, family and
\* metric argument, and so the same estimate as any other such run.
C22_EstimateIgnoresBootstrap ==
    (Returned /\ call.fn \in ReturnFns) =>
        LET other == ReturnOverPoints(ams.vals, ReferenceRun, 1, 0)
        IN  \A p \in DOMAIN out.vals : out.vals[p].metric = other[p].metric

\* C22 witness: a run with the most replicates and percentiles other than
\* the defaults has returned a number as estimate, between limits that
\* differ from each other.
C22_Witness ==
    /\ Returned /\ call.fn \in ReturnFns /\ call.bootstrap_runs = MaxRuns
    /\ call.conf_int_lower_bound # DefaultLower /\ rng0 # 0
    /\ ~out.vals[1].metric.nan
    /\ ~out.vals[1].conf_int_lower_limit.nan
    /\ out.vals[1].conf_int_lower_limit # out.vals[1].conf_int_upper_limit

----------------------------------------------------------------------------
(* Claims about every operation *)

----------------------------------------------------------------------------
(* Claims about the annual maxima *)

\* The calendar years in which the input has an entry.
InputYears == {xda.time[i].year : i \in 1..Len(xda.time)}

\* The largest input value of the year at the point.
IsYearMax(v, p, y) ==
    /\ \E i \in 1..Len(xda.time) : xda.time[i].year = y /\ xda.vals[p][i] = v
    /\ \A i \in 1..Len(xda.time) : xda.time[i].year = y => xda.vals[p][i] <= v

\* C20 as stated: get_ams with extremes_type "max" returns exactly one entry
\* per calendar year of the input, each the maximum of the input values of
\* that year at that point, with the points unchanged; any other
\* extremes_type raises and returns nothing.
C20_OneMaxPerInputYear ==
    /\ (xcall.fn = "get_ams" /\ xpc = "done") =>
          /\ xcall.extremes_type = "max"
          /\ {xout.year[g] : g \in 1..Len(xout.year)} = InputYears
          /\ \A g, h \in 1..Len(xout.year) : xout.year[g] = xout.year[h] => g = h
          /\ DOMAIN xout.vals = DOMAIN xda.vals
          /\ \A p \in DOMAIN xout.vals : \A g \in 1..Len(xout.year) :
                /\ ~xout.vals[p][g].nan
                /\ IsYearMax(xout.vals[p][g].val, p, xout.year[g])
    /\ (xcall.fn = "get_ams" /\ xcall.extremes_type # "max" /\ xpc # "ams") =>
          /\ xpc = "raised" /\ xerr = ExtremesError /\ xout.vals = <<>>

\* C20, amended: it returns exactly one entry per calendar year from the
\* first to the last year of the input; the entry of a year in which the
\* input has entries is the maximum of the input values of that year at that
\* point, and the entry of a year in which it has none is NaN; the points are
\* unchanged; any other extremes_type raises and returns nothing.
C20_OneMaxPerYearSpanned ==
    /\ (xcall.fn = "get_ams" /\ xpc = "done") =>
          /\ xcall.extremes_type = "max"
          /\ {xout.year[g] : g \in 1..Len(xout.year)} =
                 {y \in AmsYears : \E a, b \in InputYears : a <= y /\ y <= b}
          /\ \A g, h \in 1..Len(xout.year) : xout.year[g] = xout.year[h] => g = h
          /\ DOMAIN xout.vals = DOMAIN xda.vals
          /\ \A p \in DOMAIN xout.vals : \A g \in 1..Len(xout.year) :
                IF xout.year[g] \in InputYears
                THEN /\ ~xout.vals[p][g].nan
                     /\ IsYearMax(xout.vals[p][g].val, p, xout.year[g])
                ELSE xout.vals[p][g] = NaN
    /\ (xcall.fn = "get_ams" /\ xcall.extremes_type # "max" /\ xpc # "ams") =>
          /\ xpc = "raised" /\ xerr = ExtremesError /\ xout.vals = <<>>

\* C20 witness: annual maxima were returned for two points of a series with
\* two entries in one year, the smaller one last, and one in the next year.
C20_Witness ==
    /\ xcall.fn = "get_ams" /\ xpc = "done" /\ DOMAIN xda.vals = {1, 2}
    /\ xda.time[1].year = xda.time[2].year /\ xda.time[3].year = xda.time[2].year + 1
    /\ xda.vals[1][1] > xda.vals[1][2]
    /\ xout.vals[1][1] = Num(xda.vals[1][1]) /\ Len(xout.year) = 2

----------------------------------------------------------------------------
(* Claims about the exceedance call *)

\* The threshold condition, written out.
Qualifies(v) ==
    \/ xcall.threshold_direction = "above" /\ v > xcall.threshold_value
    \/ xcall.threshold_direction = "below" /\ v < xcall.threshold_value

\* C7: an unsupported period_length or groupby raises before the data is
\* touched: no comparison with the threshold and no grouping has been made
\* when the error is raised.
C7_UnsupportedOptionFailsBeforeData ==
    xerr \in {PeriodError, GroupbyError} => xeff = NoXEff

\* C8: get_exceedance_count with a duration or a smoothing raises, returns no
\* count, and has flagged and counted nothing.
C8_DurationSmoothingFailFast ==
    (xcall.fn = "get_exceedance_count" /\ xpc # "count"
        /\ (xcall.duration # "None" \/ xcall.smoothing # "None")) =>
        /\ xpc = "raised" /\ xerr \in {DurationError, SmoothingError}
        /\ xeff = NoXEff /\ xout.vals = <<>>

\* C8 witness: only smoothing was given, and the call raised.
C8_Witness ==
    /\ xcall.fn = "get_exceedance_count" /\ xcall.duration = "None"
    /\ xcall.smoothing # "None" /\ xpc = "raised" /\ xerr = SmoothingError

\* C9: with period_length "1year" and no groupby, the count returned has, for
\* every calendar year of the input and every point, exactly the number of
\* time entries of that year that satisfy the threshold condition, zero
\* included.
C9_CountPerCalendarYear ==
    (xpc = "done" /\ xcall.fn = "get_exceedance_count" /\ xcall.groupby = "None") =>
        /\ \A i \in 1..Len(xda.time) :
              Cardinality({g \in 1..Len(xout.year) : xout.year[g] = xda.time[i].year}) = 1
        /\ \A g \in 1..Len(xout.year) :
              \E i \in 1..Len(xda.time) : xda.time[i].year = xout.year[g]
        /\ DOMAIN xout.vals = DOMAIN xda.vals
        /\ \A p \in DOMAIN xout.vals :
              /\ Len(xout.vals[p]) = Len(xout.year)
              /\ \A g \in 1..Len(xout.year) :
                    xout.vals[p][g] =
                        Cardinality({i \in 1..Len(xda.time) :
                            /\ xda.time[i].year = xout.year[g]
                            /\ Qualifies(xda.vals[p][i])})

\* C9 witness: a count was returned for two points in which one year has no
\* qualifying entry and another has two.
C9_Witness ==
    /\ xpc = "done" /\ xcall.fn = "get_exceedance_count" /\ xcall.groupby = "None"
    /\ Len(xout.year) = 2 /\ DOMAIN xout.vals = {1, 2}
    /\ xout.vals[1][1] = 0 /\ xout.vals[1][2] = 2 /\ xout.vals[2][1] = 1

\* C10: get_exceedance_events flags an entry iff its value is strictly above
\* the threshold (direction "above") or strictly below it ("below"); any other
\* direction raises and returns no flags.
C10_StrictComparison ==
    /\ xpc = "groupby" =>
          /\ events.time = xda.time
          /\ \A p \in DOMAIN xda.vals : \A i \in 1..Len(xda.time) :
                events.vals[p][i] = Qualifies(xda.vals[p][i])
    /\ (xpc = "done" /\ xcall.fn = "get_exceedance_events" /\ xcall.groupby = "None") =>
          /\ DOMAIN xout.vals = DOMAIN xda.vals
          /\ \A p \in DOMAIN xda.vals : \A i \in 1..Len(xda.time) :
                xout.vals[p][i] = Qualifies(xda.vals[p][i])
    /\ (xcall.threshold_direction \notin {"above", "below"}
            /\ xpc \notin {"count", "events"}) =>
          /\ xpc = "raised" /\ xerr \in {DirectionError, DurationError, SmoothingError}
          /\ xout.vals = <<>> /\ events.vals = <<>>

\* C10 witness: flags were returned for direction "above"; an entry equal to
\* the threshold is not flagged and a larger one is.
C10_Witness ==
    /\ xpc = "done" /\ xcall.fn = "get_exceedance_events" /\ xcall.groupby = "None"
    /\ xcall.threshold_direction = "above"
    /\ \E p \in DOMAIN xda.vals : \E i, j \in 1..Len(xda.time) :
          /\ xda.vals[p][i] = xcall.threshold_value /\ ~xout.vals[p][i]
          /\ xda.vals[p][j] > xcall.threshold_value /\ xout.vals[p][j]

\* C11: get_exceedance_events with groupby "1day" returns, per point, exactly
\* one flag per calendar day present in the input, set iff at least one entry
\* of that day satisfies the threshold condition; a groupby other than None
\* and "1day" raises and returns nothing.
C11_OneFlagPerDay ==
    /\ (xpc = "done" /\ xcall.fn = "get_exceedance_events" /\ xcall.groupby = "1day") =>
          /\ \A i \in 1..Len(xda.time) :
                Cardinality({g \in 1..Len(xout.time) : xout.time[g] = xda.time[i]}) = 1
          /\ \A g \in 1..Len(xout.time) :
                \E i \in 1..Len(xda.time) : xda.time[i] = xout.time[g]
          /\ DOMAIN xout.vals = DOMAIN xda.vals
          /\ \A p \in DOMAIN xout.vals :
                /\ Len(xout.vals[p]) = Len(xout.time)
                /\ \A g \in 1..Len(xout.time) :
                      xout.vals[p][g] =
                          (\E i \in 1..Len(xda.time) :
                              /\ xda.time[i] = xout.time[g]
                              /\ Qualifies(xda.vals[p][i]))
    /\ (xcall.fn = "get_exceedance_events" /\ xcall.groupby \notin {"None", "1day"}
            /\ xpc \notin {"events", "groupby"}) =>
          /\ xpc = "raised" /\ xerr \in {DirectionError, GroupbyError}
          /\ xout.vals = <<>>

\* C11 witness: flags per day were returned for a series with two entries on
\* one day, of which only the second qualifies, and one entry on another day,
\* which does not: the first day is flagged and the other is not.
C11_Witness ==
    /\ xpc = "done" /\ xcall.fn = "get_exceedance_events" /\ xcall.groupby = "1day"
    /\ Len(xda.time) = 3 /\ xda.time[1] = xda.time[2] /\ xda.time[2] # xda.time[3]
    /\ \E p \in DOMAIN xda.vals :
          /\ ~Qualifies(xda.vals[p][1]) /\ Qualifies(xda.vals[p][2])
          /\ ~Qualifies(xda.vals[p][3])
          /\ xout.vals[p] = <<TRUE, FALSE>>

----------------------------------------------------------------------------
(* Claims about the calculator *)

Abs(x) == IF x < 0 THEN -x ELSE x

\* The period differs from T years by at most one percent of T.
WithinTolerance(p, T) ==
    ~p.nan /\ 100 * Abs(p.val - PeriodScale * T) <= PeriodScale * T

\* C12: calculate_return with data_variable "return_period" never raises, and
\* returns NaN exactly when the fitted CDF at the magnitude equals 1.0; in
\* every other case it returns -1 / (p - 1) rounded to 3 decimals.  This for
\* the magnitudes of a direct call and for a return value fed back.
C12_ReturnPeriodNaNOnlyAtOne ==
    /\ (cpc = "done" /\ calc.data_variable = "return_period") =>
          /\ result.nan <=> CdfOf(fitted_distr, calc.arg_value) = PScale
          /\ ~result.nan =>
                result.val = RoundPeriod(IF CdfNum(fitted_distr, calc.arg_value) < 0
                                         THEN 0
                                         ELSE CdfNum(fitted_distr, calc.arg_value),
                                         CdfDen(fitted_distr))
    /\ (cpc = "done" /\ calc.data_variable = "return_value" /\ ~result.nan) =>
          /\ period.nan <=> CdfOf(fitted_distr, result.val) = PScale
          /\ ~period.nan =>
                period.val = RoundPeriod(IF CdfNum(fitted_distr, result.val) < 0
                                         THEN 0
                                         ELSE CdfNum(fitted_distr, result.val),
                                         CdfDen(fitted_distr))

\* C12 witness: return_period was called with a magnitude at which the fitted
\* CDF is 1.0, and returned NaN.
C12_Witness ==
    /\ cpc = "done" /\ calc.data_variable = "return_period"
    /\ CdfOf(fitted_distr, calc.arg_value) = PScale /\ result = NaN

\* C23: calculate_return yields a return_prob within [0, 1], and a
\* return_period that is NaN or a number >= 1, never zero, negative or
\* infinite; this for a direct call and for a return value fed back.
C23_ProbAndPeriodInRange ==
    /\ (cpc = "done" /\ calc.data_variable = "return_prob") =>
          ~result.nan /\ 0 <= result.val /\ result.val <= PScale
    /\ (cpc = "done" /\ calc.data_variable = "return_period") =>
          result.nan \/ result.val >= PeriodScale
    /\ (cpc = "done" /\ calc.data_variable = "return_value") =>
          period.nan \/ period.val >= PeriodScale

\* C23 witness: return_period was called with a magnitude at which the
\* fitted CDF is strictly between 0 and 1, and returned a number above 1.
C23_Witness ==
    /\ cpc = "done" /\ calc.data_variable = "return_period"
    /\ CdfNum(fitted_distr, calc.arg_value) > 0
    /\ CdfNum(fitted_distr, calc.arg_value) < CdfDen(fitted_distr)
    /\ ~result.nan /\ result.val > PeriodScale

\* C13 as stated: for every fit and every T in {2, 10, 50, 100}, return_value
\* for T fed back through return_period yields T within tolerance.
C13_RoundTrip ==
    (cpc = "done" /\ calc.data_variable = "return_value"
        /\ calc.arg_value \in ReturnPeriods) =>
        WithinTolerance(period, calc.arg_value)

\* The fitted density over one rounding step of return_value, 1e-5, is at
\* most 1 / (100 T): the width of the fitted distribution is at least 100 T
\* rounding steps.
WellScaled(f, T) == (f.w * ValueScale) \div f.n >= 100 * T

\* C13, amended: the round trip yields T within one percent for every fit
\* whose density over one rounding step of return_value is at most
\* 1 / (100 T).
C13_RoundTripWhenWellScaled ==
    (cpc = "done" /\ calc.data_variable = "return_value"
        /\ calc.arg_value \in ReturnPeriods
        /\ WellScaled(fitted_distr, calc.arg_value)) =>
        WithinTolerance(period, calc.arg_value)

\* C13 witness: a round trip for T = 100 on a well-scaled fit has come back
\* within tolerance, the value having been moved by its rounding.
C13_Witness ==
    /\ cpc = "done" /\ calc.data_variable = "return_value" /\ calc.arg_value = 100
    /\ WellScaled(fitted_distr, 100)
    /\ WithinTolerance(period, 100) /\ period.val # PeriodScale * 100

----------------------------------------------------------------------------
(* Claims about the selectors *)

\* C24: in LocSelectorArea, after construction and any changes of area_subset
\* and selections of cached_area among the options offered: whenever
\* area_subset is a category, the options are exactly the keys of that
\* category's lookup and cached_area is one of them, so the lookup of view()
\* finds it; and a change of area_subset to "none" or "lat/lon" leaves the
\* options and cached_area as they are.
C24_CachedAreaFollowsSubset ==
    location.area_subset \in AreaSubsets =>
        /\ location.area_subset \in Categories =>
              /\ location.objects = location.geography_choose[location.area_subset]
              /\ location.cached_area \in Entries(location.objects)
              /\ view(location) # "KeyError" /\ location.shape # "KeyError"
        /\ \A v \in {"none", "lat/lon"} \ {location.area_subset} :
              /\ SetAreaSubset(location, v).objects = location.objects
              /\ SetAreaSubset(location, v).cached_area = location.cached_area

\* The scenarios defined for the selected resolution, without "Historical
\* Climate" when append_historical is true.
ScenariosOffered(sel) ==
    Keep(sel.choices.scenarios[sel.resolution],
         Entries(sel.choices.scenarios[sel.resolution])
             \ (IF sel.append_historical THEN {"Historical Climate"} ELSE {}))

\* C25: in DataSelector, in every state from construction on, the scenario
\* options are the scenarios defined for the selected resolution, without
\* "Historical Climate" when append_historical is true; and every change of
\* resolution or of append_historical resets the selected scenario to [None].
C25_ScenariosFollowResolution ==
    selections.resolution \in Resolutions =>
        /\ selections.objects = ScenariosOffered(selections)
        /\ \A v \in Entries(selections.choices.resolutions) \ {selections.resolution} :
              SetResolution(selections, v).scenario = <<None>>
        /\ SetAppendHistorical(selections, ~selections.append_historical).scenario
              = <<None>>

====
